---- MODULE Spec2Model ----
(***************************************************************************)
(* Model of the SRAM-PUF enrollment sketch PUF/pufDeri.ino.                *)
(*                                                                         *)
(* One behaviour is a sequence of boots of one device.  The persistent     *)
(* state is the NVS namespace "puf_optimized" (keys init_done, boot_count, *)
(* acc); everything else is lost at every reset.  setup() is cut into one  *)
(* action per NVS write, so that a power loss or a reset can fall between  *)
(* any two writes.                                                         *)
(***************************************************************************)
EXTENDS Integers, Sequences, FiniteSets, TLC

\* ------------------------------------------------------------------ bounds
\* PUF_SIZE is 256 in the sketch (line 8); the model keeps the per-byte and
\* per-bit index arithmetic and scales the number of bytes down.
PUF_SIZE == 2
\* Number of power losses / resets in the middle of a boot in one behaviour.
MaxCrash == 2

\* --------------------------------------------------------------- constants
ENROLL_ROUNDS == 7
\* STABILITY_THRESHOLD 0.85, kept as a percentage.
STABILITY_THRESHOLD == 85
\* size of the accumulator blob: PUF_SIZE * 8 * sizeof(uint8_t)
acc_size == PUF_SIZE * 8

\* Values a byte of the power-up SRAM block takes in the model: 0x53, its
\* complement 0xAC, and 0x0F.  Together they split the eight bit positions
\* into four classes, and none of them reads the same in reversed bit order.
ByteVals == <<83, 172, 15>>
\* The power-up contents of the SRAM block, indexed 0 .. PUF_SIZE-1 as in the
\* sketch: three blocks, in each of which neighbouring bytes differ.
Samples == {[j \in 0 .. PUF_SIZE - 1 |-> ByteVals[((k + j) % 3) + 1]] : k \in 0 .. 2}

Reasons == {"ESP_RST_POWERON", "ESP_RST_SW"}

\* ------------------------------------------------------------ NVS (Preferences)
\* A blob: a function 0 .. len-1 -> uint8.  The empty blob is <<>>.
NoBlob == <<>>
BlobLen(b) == Cardinality(DOMAIN b)

EmptyNVS == [keys |-> {}, boot_count |-> 0, acc |-> NoBlob]

isKey(s, k) == k \in s.keys
clear(s) == EmptyNVS
putBool(s) == [s EXCEPT !.keys = @ \cup {"init_done"}]
putInt(s, v) == [s EXCEPT !.keys = @ \cup {"boot_count"}, !.boot_count = v]
getInt(s) == IF isKey(s, "boot_count") THEN s.boot_count ELSE 0
putBytes(s, buf) == [s EXCEPT !.keys = @ \cup {"acc"}, !.acc = buf]
getBytesLength(s) == IF isKey(s, "acc") THEN BlobLen(s.acc) ELSE 0

\* What a putBytes that reports fewer bytes than requested may leave behind:
\* the old entry, or a blob shorter than the one requested.
Truncated(buf) == [i \in 0 .. (acc_size \div 2) - 1 |-> buf[i]]
FailedPutBytes(s, buf) == {s, putBytes(s, Truncated(buf))}

\* Leftovers of an earlier use of the namespace (no init_done key).
StaleNVS == [keys |-> {"boot_count", "acc"}, boot_count |-> 3,
             acc |-> [i \in 0 .. acc_size - 1 |-> 2]]

\* ------------------------------------------------------------ pure helpers
RECURSIVE Pow2(_)
Pow2(n) == IF n = 0 THEN 1 ELSE 2 * Pow2(n - 1)

\* (val >> bit) & 1
Bit(val, bit) == (val \div Pow2(bit)) % 2

ZeroAcc == [i \in 0 .. acc_size - 1 |-> 0]

\* Accumulate with the bits of a byte taken in the opposite order.
Accumulate_reversed(acc, ram) ==
    [k \in 0 .. acc_size - 1 |->
        IF Bit(ram[k \div 8], 7 - (k % 8)) = 1 THEN (acc[k] + 1) % 256 ELSE acc[k]]

\* lines 92-99: accumulator[(i*8) + bit]++ when bit `bit` of byte i is set
\* (uint8_t counters).
Accumulate(acc, ram) ==
    [k \in 0 .. acc_size - 1 |->
        IF Bit(ram[k \div 8], k % 8) = 1 THEN (acc[k] + 1) % 256 ELSE acc[k]]

\* IgnoredReset with the comparison of boot_count turned around.
IgnoredReset_flipped(r, bc) == r /= "ESP_RST_POWERON" /\ bc > ENROLL_ROUNDS
\* IgnoredReset without the test of boot_count.
IgnoredReset_always(r, bc) == r /= "ESP_RST_POWERON"
\* line 61
IgnoredReset(r, bc) == r /= "ESP_RST_POWERON" /\ bc < ENROLL_ROUNDS
\* SizeMismatch with the comparison inverted.
SizeMismatch_inverted(s) == getBytesLength(s) = acc_size
\* SizeMismatch that only rejects a blob too long for the buffer.
SizeMismatch_tooLong(s) == getBytesLength(s) > acc_size
\* line 80
SizeMismatch(s) == getBytesLength(s) /= acc_size
\* Saved that takes any non-zero byte count for success.
Saved_nonzero(written) == written > 0
\* line 103 (the else branch)
Saved(written) == written = acc_size

\* line 126, 128: prob = c / ENROLL_ROUNDS; prob >= STABILITY_THRESHOLD.
\* Exact comparison: for c in 0..255 the quotient c/7 is never within 1/140
\* of 0.85 or 0.15, so float rounding cannot change the outcome.
IsStableOne(c) == c * 100 >= STABILITY_THRESHOLD * ENROLL_ROUNDS
\* IsStableZero compared against the threshold instead of 1 - threshold.
IsStableZero_sameThreshold(c) ==
    /\ ~IsStableOne(c)
    /\ c * 100 <= STABILITY_THRESHOLD * ENROLL_ROUNDS
\* line 131: prob <= 1.0 - STABILITY_THRESHOLD (in the else branch)
IsStableZero(c) ==
    /\ ~IsStableOne(c)
    /\ c * 100 <= (100 - STABILITY_THRESHOLD) * ENROLL_ROUNDS

RECURSIVE OrBits(_, _, _)
\* the byte stable_key_data[j] after the loop: bits b, b+1, .. 7
OrBits(acc, j, b) ==
    IF b = 8 THEN 0
    ELSE (IF IsStableOne(acc[j * 8 + b]) THEN Pow2(b) ELSE 0) + OrBits(acc, j, b + 1)

\* lines 121-134: stable_key_data[i/8] |= (1 << (i%8))
StableKeyData(acc) == [j \in 0 .. PUF_SIZE - 1 |-> OrBits(acc, j, 0)]

\* lines 123-134: stable_bits
StableBits(acc) ==
    Cardinality({i \in 0 .. acc_size - 1 : IsStableOne(acc[i]) \/ IsStableZero(acc[i])})

\* lines 16-23: the digest is an opaque function of the hashed bytes.
computeSHA256(data) == [sha256 |-> data]
NoHash == [sha256 |-> <<>>]

\* Contents of a malloc'ed buffer before anything is stored in it.
Uninitialized == {ZeroAcc, [i \in 0 .. acc_size - 1 |-> 255]}

\* prefs.getBytes("acc", buf, acc_size) into a fresh malloc'ed buffer: the
\* stored bytes, and whatever the buffer held beyond the stored length.
getBytes(s) ==
    {[i \in 0 .. acc_size - 1 |-> IF i < getBytesLength(s) THEN s.acc[i] ELSE g[i]] :
        g \in Uninitialized}

\* ------------------------------------------------------------------ state
VARIABLES
    nvs,            \* the NVS namespace
    pc,             \* position in setup(); "off" = unpowered, "done" = in loop()
    reason,         \* esp_reset_reason() of the current boot
    puf_ram_block,  \* the SRAM block of the current boot
    boot_count,     \* the local of line 57
    accumulator,    \* the malloc'ed buffer
    msg,            \* last status line printed
    stable_key_data,\* the candidate of line 121
    stable_bits,    \* the count printed at line 137
    final_hash,     \* the key printed at line 144
    nvs0,           \* history: nvs when the current boot started
    round0,         \* history: nvs when the current round was accepted
    applied,        \* history: samples folded into the stored acc, per sample
    failedStep,     \* history: training step of the last failed save
    prevFinal,      \* history: the previous finalization
    committed,      \* history: samples of the committed rounds, per sample
    allocFailed,    \* history: an allocation of the current boot failed
    crashes         \* history: interrupted boots so far

vars == <<nvs, pc, reason, puf_ram_block, boot_count, accumulator, msg,
          stable_key_data, stable_bits, final_hash, nvs0, round0, applied, failedStep,
          prevFinal, committed, allocFailed, crashes>>

NoSample == [i \in 0 .. PUF_SIZE - 1 |-> 0]
NoKeyData == [j \in 0 .. PUF_SIZE - 1 |-> 0]
NoFinal == [acc |-> NoBlob, key |-> NoHash, reason |-> "none", ram |-> NoSample]
NoApplied == [s \in Samples |-> 0]

Running == {"alloc", "begin", "putBool", "putInt0", "gate", "enroll", "save",
            "putCount", "keygen"}

Init ==
    /\ nvs \in {EmptyNVS, StaleNVS}
    /\ pc = "off"
    /\ reason = "none"
    /\ puf_ram_block = NoSample
    /\ boot_count = 0
    /\ accumulator = NoBlob
    /\ msg = "none"
    /\ stable_key_data = NoKeyData
    /\ stable_bits = 0
    /\ final_hash = NoHash
    /\ nvs0 = nvs
    /\ round0 = nvs
    /\ applied = NoApplied
    /\ failedStep = 0
    /\ prevFinal = NoFinal
    /\ committed = NoApplied
    /\ allocFailed = FALSE
    /\ crashes = 0

\* ---------------------------------------------------------------- actions
\* Reset vector: a new run of setup() with reset cause r (lines 33-36).
StartBoot(r) ==
    /\ pc' = "alloc"
    /\ reason' = r
    /\ puf_ram_block' = NoSample
    /\ boot_count' = 0
    /\ accumulator' = NoBlob
    /\ msg' = "banner"
    /\ stable_key_data' = NoKeyData
    /\ stable_bits' = 0
    /\ final_hash' = NoHash
    /\ nvs0' = nvs
    /\ round0' = nvs
    /\ prevFinal' = IF msg = "final_key"
                    THEN [acc |-> nvs.acc, key |-> final_hash,
                          reason |-> reason, ram |-> puf_ram_block]
                    ELSE prevFinal
    /\ UNCHANGED <<nvs, applied, failedStep>>
    /\ allocFailed' = FALSE
    /\ UNCHANGED committed

\* The device is powered up (after being unplugged, or unplugged and
\* replugged while idle).
PowerOn ==
    /\ pc \in {"off", "done", "halt"}
    /\ StartBoot("ESP_RST_POWERON")
    /\ UNCHANGED crashes

\* Reset button or software reset while idle in loop() or halted.
SoftReset ==
    /\ pc \in {"done", "halt"}
    /\ StartBoot("ESP_RST_SW")
    /\ UNCHANGED crashes

\* Power is lost in the middle of setup().
PowerLoss ==
    /\ pc \in Running
    /\ crashes < MaxCrash
    /\ crashes' = crashes + 1
    /\ pc' = "off"
    /\ reason' = "none"
    /\ puf_ram_block' = NoSample
    /\ boot_count' = 0
    /\ accumulator' = NoBlob
    /\ msg' = "none"
    /\ stable_key_data' = NoKeyData
    /\ stable_bits' = 0
    /\ final_hash' = NoHash
    /\ nvs0' = nvs
    /\ round0' = nvs
    /\ UNCHANGED <<nvs, applied, failedStep, prevFinal>>
    /\ allocFailed' = FALSE
    /\ UNCHANGED committed

\* The reset button is pressed in the middle of setup().
ResetDuringBoot ==
    /\ pc \in Running
    /\ crashes < MaxCrash
    /\ crashes' = crashes + 1
    /\ StartBoot("ESP_RST_SW")

\* lines 38-43: heap_caps_malloc of the SRAM block; while(1) on failure.
Alloc ==
    /\ pc = "alloc"
    /\ \E ok \in BOOLEAN, ram \in Samples :
          /\ allocFailed' = ~ok
          /\ IF ok
             THEN /\ puf_ram_block' = ram
                  /\ pc' = "begin"
                  /\ msg' = msg
             ELSE /\ puf_ram_block' = puf_ram_block
                  /\ pc' = "halt"
                  /\ msg' = "alloc_failed"
    /\ UNCHANGED <<nvs, reason, boot_count, accumulator, stable_key_data,
                   stable_bits, final_hash, nvs0, round0, applied, failedStep, prevFinal,
                   crashes>>
    /\ UNCHANGED committed

\* lines 46-52: first run detected, prefs.clear()
InitClear ==
    /\ pc = "begin"
    /\ ~isKey(nvs, "init_done")
    /\ nvs' = clear(nvs)
    /\ msg' = "first_run"
    /\ pc' = "putBool"
    /\ UNCHANGED <<reason, puf_ram_block, boot_count, accumulator, stable_key_data,
                   stable_bits, final_hash, nvs0, round0, applied, failedStep, prevFinal,
                   crashes>>
    /\ UNCHANGED <<committed, allocFailed>>

\* line 53: prefs.putBool("init_done", true)
InitPutBool ==
    /\ pc = "putBool"
    /\ nvs' = putBool(nvs)
    /\ pc' = "putInt0"
    /\ UNCHANGED <<reason, puf_ram_block, boot_count, accumulator, msg,
                   stable_key_data, stable_bits, final_hash, nvs0, round0, applied, failedStep,
                   prevFinal, crashes>>
    /\ UNCHANGED <<committed, allocFailed>>

\* line 54: prefs.putInt("boot_count", 0)
InitPutInt ==
    /\ pc = "putInt0"
    /\ nvs' = putInt(nvs, 0)
    /\ pc' = "gate"
    /\ UNCHANGED <<reason, puf_ram_block, boot_count, accumulator, msg,
                   stable_key_data, stable_bits, final_hash, nvs0, round0, applied, failedStep,
                   prevFinal, crashes>>
    /\ UNCHANGED <<committed, allocFailed>>

\* CheckReset that takes the enrollment branch up to and including ROUNDS.
CheckReset_offByOne ==
    /\ \/ pc = "gate"
       \/ pc = "begin" /\ isKey(nvs, "init_done")
    /\ boot_count' = getInt(nvs)
    /\ IF IgnoredReset(reason, boot_count')
       THEN /\ msg' = "ignored"
            /\ pc' = "done"
       ELSE /\ msg' = msg
            /\ pc' = IF boot_count' <= ENROLL_ROUNDS THEN "enroll" ELSE "keygen"
    /\ round0' = nvs
    /\ UNCHANGED <<nvs, reason, puf_ram_block, accumulator, stable_key_data,
                   stable_bits, final_hash, nvs0, applied, failedStep, prevFinal, crashes>>
    /\ UNCHANGED <<committed, allocFailed>>

\* lines 57-68: read boot_count, reject a soft reset while enrolling, choose
\* the enrollment or the key generation branch.
CheckReset ==
    /\ \/ pc = "gate"
       \/ pc = "begin" /\ isKey(nvs, "init_done")
    /\ boot_count' = getInt(nvs)
    /\ IF IgnoredReset(reason, boot_count')
       THEN /\ msg' = "ignored"
            /\ pc' = "done"
       ELSE /\ msg' = msg
            /\ pc' = IF boot_count' < ENROLL_ROUNDS THEN "enroll" ELSE "keygen"
    /\ round0' = nvs
    /\ UNCHANGED <<nvs, reason, puf_ram_block, accumulator, stable_key_data,
                   stable_bits, final_hash, nvs0, applied, failedStep, prevFinal, crashes>>
    /\ UNCHANGED <<committed, allocFailed>>

\* EnrollLoad with the NULL check of line 75 placed after the length check.
EnrollLoad_lateNullCheck ==
    /\ pc = "enroll"
    /\ \E ok \in BOOLEAN :
          /\ allocFailed' = ~ok
          /\ IF boot_count > 0 /\ SizeMismatch(nvs)
             THEN /\ nvs' = putInt(nvs, 0)
                  /\ msg' = "size_mismatch"
                  /\ pc' = "done"
                  /\ failedStep' = 0
                  /\ UNCHANGED accumulator
             ELSE IF ~ok
             THEN /\ msg' = "malloc_failed"
                  /\ pc' = "done"
                  /\ UNCHANGED <<nvs, accumulator, failedStep>>
             ELSE /\ \E buf \in (IF boot_count > 0 THEN getBytes(nvs) ELSE {ZeroAcc}) :
                        accumulator' = Accumulate(buf, puf_ram_block)
                  /\ msg' = "training_step"
                  /\ pc' = "save"
                  /\ UNCHANGED <<nvs, failedStep>>
    /\ UNCHANGED <<reason, puf_ram_block, boot_count, stable_key_data,
                   stable_bits, final_hash, nvs0, round0, applied, prevFinal,
                   crashes>>
    /\ UNCHANGED committed

\* EnrollLoad without the memset of line 88.
EnrollLoad_noMemset ==
    /\ pc = "enroll"
    /\ \E ok \in BOOLEAN :
          IF ~ok
          THEN /\ msg' = "malloc_failed"
               /\ pc' = "done"
               /\ allocFailed' = TRUE
               /\ UNCHANGED <<nvs, accumulator, failedStep>>
          ELSE IF boot_count > 0 /\ SizeMismatch(nvs)
          THEN /\ nvs' = putInt(nvs, 0)
               /\ msg' = "size_mismatch"
               /\ pc' = "done"
               /\ failedStep' = 0
               /\ UNCHANGED <<accumulator, allocFailed>>
          ELSE /\ \E buf \in (IF boot_count > 0 THEN getBytes(nvs) ELSE Uninitialized) :
                     accumulator' = Accumulate(buf, puf_ram_block)
               /\ msg' = "training_step"
               /\ pc' = "save"
               /\ UNCHANGED <<nvs, failedStep, allocFailed>>
    /\ UNCHANGED <<reason, puf_ram_block, boot_count, stable_key_data,
                   stable_bits, final_hash, nvs0, round0, applied, prevFinal,
                   crashes>>
    /\ UNCHANGED committed

\* lines 69-99: allocate the accumulator, load or clear it, fold the sample
\* in; on a size mismatch reset boot_count and return.
EnrollLoad ==
    /\ pc = "enroll"
    /\ \E ok \in BOOLEAN :
          IF ~ok
          THEN /\ msg' = "malloc_failed"
               /\ pc' = "done"
               /\ allocFailed' = TRUE
               /\ UNCHANGED <<nvs, accumulator, failedStep>>
          ELSE IF boot_count > 0 /\ SizeMismatch(nvs)
          THEN /\ nvs' = putInt(nvs, 0)
               /\ msg' = "size_mismatch"
               /\ pc' = "done"
               /\ failedStep' = 0
               /\ UNCHANGED <<accumulator, allocFailed>>
          ELSE /\ \E buf \in (IF boot_count > 0 THEN getBytes(nvs) ELSE {ZeroAcc}) :
                     accumulator' = Accumulate(buf, puf_ram_block)
               /\ msg' = "training_step"
               /\ pc' = "save"
               /\ UNCHANGED <<nvs, failedStep, allocFailed>>
    /\ UNCHANGED <<reason, puf_ram_block, boot_count, stable_key_data,
                   stable_bits, final_hash, nvs0, round0, applied, prevFinal,
                   crashes>>
    /\ UNCHANGED committed

\* lines 101-105: prefs.putBytes("acc", ...) and the check of its result.
\* `written` is what putBytes reports: acc_size when the blob was stored,
\* less when it was not.
SaveAcc ==
    /\ pc = "save"
    /\ \E written \in {0, acc_size \div 2, acc_size} :
          /\ IF written = acc_size
             THEN /\ nvs' = putBytes(nvs, accumulator)
                  /\ applied' = [(IF boot_count > 0 THEN applied ELSE NoApplied)
                                    EXCEPT ![puf_ram_block] = @ + 1]
                  /\ failedStep' = 0
             ELSE /\ nvs' \in FailedPutBytes(nvs, accumulator)
                  /\ failedStep' = boot_count + 1
                  /\ UNCHANGED applied
          /\ IF Saved(written)
             THEN /\ pc' = "putCount"
                  /\ UNCHANGED <<msg, accumulator>>
             ELSE /\ msg' = "critical_error"
                  /\ accumulator' = NoBlob
                  /\ pc' = "done"
    /\ UNCHANGED <<reason, puf_ram_block, boot_count, stable_key_data,
                   stable_bits, final_hash, nvs0, round0, prevFinal, crashes>>
    /\ UNCHANGED <<committed, allocFailed>>

\* PutCount that goes on to the key generation when it has stored the last
\* round.
PutCount_fallThrough ==
    /\ pc = "putCount"
    /\ nvs' = putInt(nvs, boot_count + 1)
    /\ committed' = [(IF boot_count > 0 THEN committed ELSE NoApplied)
                        EXCEPT ![puf_ram_block] = @ + 1]
    /\ msg' = "snapshot_saved"
    /\ accumulator' = NoBlob
    /\ pc' = IF boot_count + 1 = ENROLL_ROUNDS THEN "keygen" ELSE "done"
    /\ UNCHANGED <<reason, puf_ram_block, boot_count, stable_key_data,
                   stable_bits, final_hash, nvs0, round0, applied, failedStep,
                   prevFinal, crashes>>
    /\ UNCHANGED allocFailed

\* PutCount that stores boot_count without the increment.
PutCount_noIncrement ==
    /\ pc = "putCount"
    /\ nvs' = putInt(nvs, boot_count)
    /\ committed' = [(IF boot_count > 0 THEN committed ELSE NoApplied)
                        EXCEPT ![puf_ram_block] = @ + 1]
    /\ msg' = "snapshot_saved"
    /\ accumulator' = NoBlob
    /\ pc' = "done"
    /\ UNCHANGED <<reason, puf_ram_block, boot_count, stable_key_data,
                   stable_bits, final_hash, nvs0, round0, applied, failedStep,
                   prevFinal, crashes>>
    /\ UNCHANGED allocFailed

\* lines 106-111: prefs.putInt("boot_count", boot_count + 1)
PutCount ==
    /\ pc = "putCount"
    /\ nvs' = putInt(nvs, boot_count + 1)
    /\ committed' = [(IF boot_count > 0 THEN committed ELSE NoApplied)
                        EXCEPT ![puf_ram_block] = @ + 1]
    /\ msg' = "snapshot_saved"
    /\ accumulator' = NoBlob
    /\ pc' = "done"
    /\ UNCHANGED <<reason, puf_ram_block, boot_count, stable_key_data,
                   stable_bits, final_hash, nvs0, round0, applied, failedStep,
                   prevFinal, crashes>>
    /\ UNCHANGED allocFailed

\* KeyGen without the getBytes of line 119: the buffer is classified as
\* malloc returned it.
KeyGen_noLoad ==
    /\ pc = "keygen"
    /\ \E ok \in BOOLEAN :
          IF ~ok
          THEN /\ msg' = "panic"
               /\ pc' = "halt"
               /\ allocFailed' = TRUE
               /\ UNCHANGED <<stable_key_data, stable_bits, final_hash>>
          ELSE \E buf \in Uninitialized :
               /\ stable_key_data' = StableKeyData(buf)
               /\ stable_bits' = StableBits(buf)
               /\ final_hash' = computeSHA256(stable_key_data')
               /\ msg' = "final_key"
               /\ pc' = "done"
               /\ UNCHANGED allocFailed
    /\ UNCHANGED <<nvs, reason, puf_ram_block, boot_count, accumulator, nvs0,
                   round0, applied, failedStep, prevFinal, crashes>>
    /\ UNCHANGED committed

\* lines 114-146: load the accumulator (no NULL check, no length check),
\* classify every bit, hash the candidate, print the key.
KeyGen ==
    /\ pc = "keygen"
    /\ \E ok \in BOOLEAN :
          IF ~ok
          THEN \* accumulator == NULL is dereferenced at line 126
               /\ msg' = "panic"
               /\ pc' = "halt"
               /\ allocFailed' = TRUE
               /\ UNCHANGED <<stable_key_data, stable_bits, final_hash>>
          ELSE \E buf \in getBytes(nvs) :
               /\ stable_key_data' = StableKeyData(buf)
               /\ stable_bits' = StableBits(buf)
               /\ final_hash' = computeSHA256(stable_key_data')
               /\ msg' = "final_key"
               /\ pc' = "done"
               /\ UNCHANGED allocFailed
    /\ UNCHANGED <<nvs, reason, puf_ram_block, boot_count, accumulator, nvs0,
                   round0, applied, failedStep, prevFinal, crashes>>
    /\ UNCHANGED committed

\* Returns of setup() that skip prefs.end() of line 149 (lines 64, 75, 84):
\* the Preferences handle is still open on "puf_optimized" in loop().
PrefsOpen == msg \in {"ignored", "malloc_failed", "size_mismatch"}

\* line 154, uncommented as its comment instructs: in loop(),
\* prefs.begin("puf_store"); prefs.clear(); println("WIPED"); while(1).
\* After prefs.end() this opens and erases the namespace "puf_store", which
\* setup() never reads.  begin() on a handle that is still open fails and
\* leaves it where it is, so clear() then erases "puf_optimized".
ManualReset ==
    /\ pc = "done"
    /\ IF PrefsOpen
       THEN /\ nvs' = clear(nvs)
            /\ applied' = NoApplied
            /\ committed' = NoApplied
            /\ failedStep' = 0
       ELSE UNCHANGED <<nvs, applied, committed, failedStep>>
    /\ msg' = "WIPED"
    /\ pc' = "halt"
    /\ nvs0' = nvs'
    /\ round0' = nvs'
    /\ reason' = "none"
    /\ puf_ram_block' = NoSample
    /\ boot_count' = 0
    /\ stable_key_data' = NoKeyData
    /\ stable_bits' = 0
    /\ final_hash' = NoHash
    /\ UNCHANGED <<accumulator, prevFinal, allocFailed, crashes>>

Next ==
    \/ PowerOn
    \/ SoftReset
    \/ PowerLoss
    \/ ResetDuringBoot
    \/ Alloc
    \/ InitClear
    \/ InitPutBool
    \/ InitPutInt
    \/ CheckReset
    \/ EnrollLoad
    \/ SaveAcc
    \/ PutCount
    \/ KeyGen
    \/ ManualReset

Spec == Init /\ [][Next]_vars

\* The enrollment flow under the hypotheses of the liveness claim: the
\* operator does not run the manual reset, a write to storage either stores
\* the whole blob or leaves the old entry, and every step of setup() is
\* eventually taken; power-on boots keep occurring, and allocations and
\* writes keep succeeding in them.
SaveAccSound == SaveAcc /\ getBytesLength(nvs') \in {0, acc_size}

LiveNext ==
    \/ PowerOn
    \/ SoftReset
    \/ PowerLoss
    \/ ResetDuringBoot
    \/ Alloc
    \/ InitClear
    \/ InitPutBool
    \/ InitPutInt
    \/ CheckReset
    \/ EnrollLoad
    \/ SaveAccSound
    \/ PutCount
    \/ KeyGen

LiveSpec ==
    /\ Init
    /\ [][LiveNext]_vars
    /\ WF_vars(Alloc)
    /\ WF_vars(EnrollLoad)
    /\ WF_vars(SaveAccSound)
    /\ WF_vars(KeyGen)
    /\ SF_vars(PowerOn)
    /\ SF_vars(Alloc /\ reason = "ESP_RST_POWERON" /\ pc' = "begin")
    /\ WF_vars(InitClear)
    /\ WF_vars(InitPutBool)
    /\ WF_vars(InitPutInt)
    /\ WF_vars(CheckReset)
    /\ SF_vars(EnrollLoad /\ pc' = "save")
    /\ SF_vars(SaveAccSound /\ pc' = "putCount")
    /\ WF_vars(PutCount)
    /\ SF_vars(KeyGen /\ pc' = "done")

TypeOK ==
    /\ nvs.keys \subseteq {"init_done", "boot_count", "acc"}
    /\ pc \in Running \cup {"off", "done", "halt"}
    /\ boot_count \in 0 .. ENROLL_ROUNDS
    /\ crashes \in 0 .. MaxCrash

\* ------------------------------------------------------------ properties
Initialized(s) == isKey(s, "init_done")
\* bit i of the SRAM block, in the accumulator's numbering
BitOf(ram, i) == Bit(ram[i \div 8], i % 8)

RECURSIVE SumBits(_, _, _)
\* how many of the samples counted in bag have bit i set
SumBits(bag, S, i) ==
    IF S = {} THEN 0
    ELSE LET s == CHOOSE x \in S : TRUE
         IN  bag[s] * BitOf(s, i) + SumBits(bag, S \ {s}, i)

\* What storage may hold while the first-run initialization of lines 50-55
\* is under way or has finished.
InitStages(s) ==
    {s, clear(s), putBool(clear(s)), putInt(putBool(clear(s)), 0)}

\* C1 (as stated): in a boot whose reset cause is not a power-on and that
\* starts with enrollment incomplete, the first-ever boot included, storage
\* stays what it was when the boot started.
C1_Original ==
    (reason = "ESP_RST_SW" /\ (~Initialized(nvs0) \/ getInt(nvs0) < ENROLL_ROUNDS))
        => nvs = nvs0

\* C1 (amended): in a boot whose reset cause is not a power-on, that starts
\* with the initialization flag present and round_count < ROUNDS, storage
\* stays what it was when the boot started; when the flag is absent the only
\* writes are those of the first-run initialization.
C1_SoftResetWritesNothing ==
    reason = "ESP_RST_SW" =>
        /\ (Initialized(nvs0) /\ getInt(nvs0) < ENROLL_ROUNDS) => nvs = nvs0
        /\ ~Initialized(nvs0) => nvs \in InitStages(nvs0)

C1_Witness ==
    /\ pc = "done" /\ msg = "ignored" /\ reason = "ESP_RST_SW"
    /\ Initialized(nvs0) /\ getInt(nvs0) = 3 /\ isKey(nvs0, "acc")
    /\ nvs = nvs0

\* C2 (as stated): at every point of an accepted round before the round's
\* persist has completed (before boot_count is written), storage is what it
\* was when the round began, so that a power loss there leaves no trace.
C2_InterruptedRoundLeavesNoTrace ==
    pc \in {"enroll", "save", "putCount"} => nvs = round0

\* C3: when the accumulator write of an accepted round reports a byte count
\* other than acc_size, round_count keeps the value it had, and the next
\* accepted round runs with the same training step.
C3_FailedSaveKeepsRound ==
    failedStep /= 0 =>
        /\ getInt(nvs) = failedStep - 1
        /\ pc \in {"enroll", "save", "putCount"} => boot_count + 1 = failedStep

C3_Witness ==
    /\ failedStep = 4 /\ pc = "save" /\ reason = "ESP_RST_POWERON"
    /\ boot_count = 3 /\ getInt(nvs) = 3

\* a step of the manual reset operation
ManualResetStep == msg' = "WIPED"

\* C4 (as stated): once the record is initialized, no step other than the
\* manual reset lowers the persisted round_count.
C4_Original ==
    [][(Initialized(nvs) /\ ~ManualResetStep) => getInt(nvs') >= getInt(nvs)]_vars

\* C4 (amended): once the record is initialized, and leaving the manual reset
\* aside, round_count is lowered only
\* by the size-mismatch recovery of a power-on boot, which sets it to 0; it is
\* raised only by 1, by the boot_count write that follows the full write of
\* this round's accumulator in a power-on boot.
C4_RoundCountSteps ==
    [][(Initialized(nvs) /\ ~ManualResetStep) =>
        /\ getInt(nvs') < getInt(nvs) =>
              /\ getInt(nvs') = 0
              /\ pc = "enroll" /\ reason = "ESP_RST_POWERON"
              /\ getBytesLength(nvs) /= acc_size
              /\ nvs'.acc = nvs.acc
        /\ getInt(nvs') > getInt(nvs) =>
              /\ getInt(nvs') = getInt(nvs) + 1
              /\ pc = "putCount" /\ reason = "ESP_RST_POWERON"
              /\ getInt(nvs) = boot_count
              /\ getBytesLength(nvs) = acc_size
              /\ nvs.acc = accumulator
              /\ nvs'.acc = nvs.acc]_vars

C4_Witness ==
    /\ pc = "done" /\ msg = "size_mismatch"
    /\ getInt(round0) >= 2 /\ getInt(nvs) = 0

\* C5 (as stated): in the persisted state a committed round leaves, every
\* counter of the stored accumulator is at most round_count and at most
\* ROUNDS.
C5_CountersBounded ==
    (pc = "done" /\ msg = "snapshot_saved") =>
        \A i \in DOMAIN nvs.acc :
            /\ nvs.acc[i] >= 0
            /\ nvs.acc[i] <= getInt(nvs)
            /\ nvs.acc[i] <= ENROLL_ROUNDS

\* C6 (as stated): a power-on boot that starts a round with
\* 0 < round_count < ROUNDS and a stored accumulator of the wrong length ends
\* with round_count 0 and the rest of the record as it was.
C6_Original ==
    (/\ pc = "done" /\ reason = "ESP_RST_POWERON"
     /\ Initialized(round0)
     /\ getInt(round0) > 0 /\ getInt(round0) < ENROLL_ROUNDS
     /\ getBytesLength(round0) /= acc_size)
        => nvs = putInt(round0, 0)

\* C6 (amended): such a boot, when it obtains the accumulator buffer, ends
\* with round_count 0, reports the size mismatch, folds no sample and writes
\* no accumulator; when the buffer cannot be allocated it writes nothing.
C6_MismatchResetsRound ==
    (/\ pc = "done" /\ reason = "ESP_RST_POWERON"
     /\ Initialized(round0)
     /\ getInt(round0) > 0 /\ getInt(round0) < ENROLL_ROUNDS
     /\ getBytesLength(round0) /= acc_size)
        => IF msg = "malloc_failed"
           THEN nvs = round0
           ELSE /\ msg = "size_mismatch"
                /\ nvs = [round0 EXCEPT !.boot_count = 0]
                /\ accumulator = NoBlob

C6_Witness ==
    /\ pc = "done" /\ reason = "ESP_RST_POWERON" /\ msg = "size_mismatch"
    /\ getInt(round0) = 3 /\ getBytesLength(round0) = acc_size \div 2
    /\ getInt(nvs) = 0 /\ nvs.acc = round0.acc

\* C7 (as stated): every boot that starts with round_count = ROUNDS ends
\* having emitted a Final Key and written nothing.
C7_Original ==
    (/\ pc \in {"done", "halt"} /\ reason \in Reasons
     /\ Initialized(nvs0) /\ getInt(nvs0) = ENROLL_ROUNDS)
        => (msg = "final_key" /\ nvs = nvs0)

\* C7 (amended): once round_count = ROUNDS no step writes storage, so the
\* record stays complete; every boot whose setup() then returns has emitted
\* the Final Key, whatever the reset cause; a boot that stops instead does so
\* on a failed allocation.
C7_CompleteIsTerminal ==
    [][(Initialized(nvs) /\ getInt(nvs) = ENROLL_ROUNDS) =>
        /\ nvs' = nvs
        /\ (pc \in Running /\ pc' = "done") =>
              /\ msg' = "final_key"
              /\ final_hash' = [sha256 |-> stable_key_data']
              /\ reason' \in Reasons
        /\ (pc \in Running /\ pc' = "halt") => msg' \in {"alloc_failed", "panic"}]_vars

C7_Witness ==
    /\ pc = "done" /\ msg = "final_key" /\ reason = "ESP_RST_SW"
    /\ getInt(nvs) = ENROLL_ROUNDS /\ nvs = nvs0

\* C8: two finalization boots that read the same stored accumulator emit the
\* same key, whatever their reset causes and SRAM contents.
C8_KeyDependsOnAccumulatorOnly ==
    (msg = "final_key" /\ prevFinal /= NoFinal /\ prevFinal.acc = nvs.acc)
        => final_hash = prevFinal.key

C8_Witness ==
    /\ msg = "final_key" /\ prevFinal /= NoFinal /\ prevFinal.acc = nvs.acc
    /\ prevFinal.reason /= reason /\ prevFinal.ram /= puf_ram_block

\* C9: with ROUNDS = 7 and threshold 0.85, a counter c >= 6 sets the
\* candidate bit, c <= 5 leaves it 0, and the used count is the number of
\* positions with c >= 6 or c <= 1.
C9_Classification ==
    msg = "final_key" =>
        /\ \A i \in 0 .. acc_size - 1 :
              BitOf(stable_key_data, i) = IF nvs.acc[i] >= 6 THEN 1 ELSE 0
        /\ stable_bits =
              Cardinality({i \in 0 .. acc_size - 1 : nvs.acc[i] >= 6 \/ nvs.acc[i] <= 1})

C9_Witness ==
    /\ msg = "final_key" /\ crashes = 0
    /\ \E i, j, k \in 0 .. acc_size - 1 :
          /\ nvs.acc[i] = 6 /\ nvs.acc[j] = 1 /\ nvs.acc[k] \in 2 .. 5
    /\ stable_bits < acc_size

\* C10: the accumulator an accepted round is about to store is the one it
\* started from plus, per position, the sample's bit; and the accumulator it
\* has stored is the per-position count of the samples folded in since the
\* round that started from zero, whatever their order.
C10_AccumulateAddsSampleBits ==
    /\ pc = "save" =>
          \A i \in 0 .. acc_size - 1 :
              accumulator[i] =
                  (IF boot_count > 0 THEN nvs.acc[i] ELSE 0) + BitOf(puf_ram_block, i)
    /\ pc = "putCount" =>
          \A i \in 0 .. acc_size - 1 : nvs.acc[i] = SumBits(applied, Samples, i)

C10_Witness ==
    /\ pc = "putCount" /\ boot_count >= 2
    /\ Cardinality({s \in Samples : applied[s] > 0}) = 3
    /\ \E i \in 0 .. acc_size - 1 : nvs.acc[i] /= round0.acc[i]
    /\ \E i \in 0 .. acc_size - 1 : nvs.acc[i] = round0.acc[i]

RECURSIVE BagTotal(_, _)
\* number of samples counted in bag
BagTotal(bag, S) ==
    IF S = {} THEN 0
    ELSE LET s == CHOOSE x \in S : TRUE IN bag[s] + BagTotal(bag, S \ {s})

\* C11: under LiveSpec, from uninitialized storage, enrollment eventually
\* stands at round_count = ROUNDS with exactly ROUNDS committed rounds, and a
\* boot then emits the Final Key.
C11_EnrollmentCompletes ==
    <>(/\ msg = "final_key" /\ final_hash /= NoHash
       /\ Initialized(nvs) /\ getInt(nvs) = ENROLL_ROUNDS
       /\ BagTotal(committed, Samples) = ENROLL_ROUNDS)

C11_Witness ==
    /\ msg = "final_key" /\ final_hash /= NoHash /\ reason = "ESP_RST_POWERON"
    /\ getInt(nvs) = ENROLL_ROUNDS
    /\ BagTotal(committed, Samples) = ENROLL_ROUNDS
    /\ crashes = 0

\* C12 (as stated): a boot in which an allocation failed has written nothing.
C12_Original ==
    allocFailed => nvs = nvs0

\* C12 (amended): a boot that fails to allocate the SRAM block has written
\* nothing; a boot that fails to allocate the accumulator buffer has written
\* nothing if it found the initialization flag, and otherwise has written the
\* first-run initialization and nothing else.
C12_AllocFailureWrites ==
    allocFailed =>
        /\ puf_ram_block = NoSample => nvs = nvs0
        /\ Initialized(nvs0) => nvs = nvs0
        /\ (~Initialized(nvs0) /\ puf_ram_block /= NoSample) =>
              nvs = putInt(putBool(clear(nvs0)), 0)

C12_Witness ==
    /\ allocFailed /\ pc = "done" /\ msg = "malloc_failed"
    /\ ~Initialized(nvs0) /\ isKey(nvs0, "acc")
    /\ nvs = putInt(putBool(EmptyNVS), 0)

\* C13 (as stated): a boot that finds no initialization flag leaves the
\* namespace holding the flag and round_count 0 and nothing else; the flag
\* is in storage only when round_count has been written and no stale
\* accumulator is left; a boot that finds the flag performs no
\* initialization.
C13_InitOrder ==
    /\ (~Initialized(nvs0) /\ pc \in {"gate", "enroll", "save"}) =>
          nvs = putInt(putBool(EmptyNVS), 0)
    /\ (Initialized(nvs) /\ pc \in {"putBool", "putInt0", "gate"}) =>
          /\ isKey(nvs, "boot_count") /\ getInt(nvs) = 0
          /\ ~isKey(nvs, "acc")
    /\ Initialized(nvs0) => (msg /= "first_run" /\ pc \notin {"putBool", "putInt0"})

\* C14 (as stated): after the manual reset operation the namespace of the
\* enrollment flow is empty, so that the next boot finds no initialization
\* flag.
C14_ManualResetClearsRecord ==
    msg = "WIPED" => nvs = EmptyNVS

\* C15: a key is emitted only in a boot that started with round_count =
\* ROUNDS; the boot that commits a round, the last one included, emits none.
C15_KeyOnlyWhenComplete ==
    /\ (msg = "final_key" \/ final_hash /= NoHash) =>
          (Initialized(nvs0) /\ getInt(nvs0) = ENROLL_ROUNDS)
    /\ msg = "snapshot_saved" => (final_hash = NoHash /\ pc = "done")

C15_Witness ==
    /\ pc = "done" /\ msg = "snapshot_saved" /\ final_hash = NoHash
    /\ getInt(nvs0) = ENROLL_ROUNDS - 1 /\ getInt(nvs) = ENROLL_ROUNDS

\* C16: a round that starts with round_count = 0 and commits leaves
\* round_count = 1 and, as the stored accumulator, the bits of that boot's
\* sample, whatever accumulator was stored before.
C16_FirstRoundStartsFromZero ==
    (pc = "done" /\ msg = "snapshot_saved" /\ boot_count = 0) =>
        /\ getInt(nvs) = 1
        /\ getBytesLength(nvs) = acc_size
        /\ \A i \in 0 .. acc_size - 1 : nvs.acc[i] = BitOf(puf_ram_block, i)

C16_Witness ==
    /\ pc = "done" /\ msg = "snapshot_saved" /\ boot_count = 0
    /\ getInt(nvs) = 1
    /\ getBytesLength(round0) = acc_size /\ round0.acc /= nvs.acc

\* C17: once the record is initialized, the persisted round_count is in
\* 0 .. ROUNDS.
C17_RoundCountInRange ==
    Initialized(nvs) => (getInt(nvs) >= 0 /\ getInt(nvs) <= ENROLL_ROUNDS)

C17_Witness ==
    /\ Initialized(nvs) /\ getInt(nvs) = ENROLL_ROUNDS
    /\ pc = "keygen" /\ reason = "ESP_RST_SW" /\ crashes > 0

\* C18 (as stated): between boots, when round_count is r > 0 and no storage
\* write has failed since, the stored accumulator has length acc_size and is
\* the per-position count of the samples of the r committed rounds; with
\* round_count = ROUNDS a full-length accumulator is stored.
C18_AccumulatorIsSumOfCommitted ==
    /\ (/\ pc \in {"off", "done", "halt"}
        /\ Initialized(nvs) /\ getInt(nvs) > 0 /\ failedStep = 0) =>
          /\ getBytesLength(nvs) = acc_size
          /\ BagTotal(committed, Samples) = getInt(nvs)
          /\ \A i \in 0 .. acc_size - 1 :
                nvs.acc[i] = SumBits(committed, Samples, i)
    /\ (Initialized(nvs) /\ getInt(nvs) = ENROLL_ROUNDS) =>
          getBytesLength(nvs) = acc_size

\* C19 (as stated): when all ROUNDS committed rounds saw the same sample S,
\* finalization yields S as the candidate, bit for bit, and reports every bit
\* as used.
C19_SameSampleGivesSample ==
    msg = "final_key" =>
        \A S \in Samples :
            committed[S] = ENROLL_ROUNDS =>
                (stable_key_data = S /\ stable_bits = acc_size)
====
